---- MODULE Spec2Model ----
(* Baseline generation of fruitstand: start() and its helpers in             *)
(* src/fruitstand/controllers/baseline.py (the concurrent variant).          *)
(* start is a straight-line procedure; pc is its position. asyncio.run and   *)
(* asyncio.gather are modelled by the event loop's FIFO ready queue.         *)
EXTENDS Integers, Sequences, FiniteSets, TLC

\* ---------------------------------------------------------------- bounds
MaxN == 3
MaxClock == 1
MaxRuns == 2

\* ------------------------------------------------------------ value sets
Queries == {"q1", "q2"}
Responses == {"r1", "r2"}
Vectors == {"v1", "v2"}
Sources == {<<"A", "i">>, <<"a", "i">>}
Models == {<<"M", ".", "1">>}
EmbSources == {<<"A", "i">>}
EmbModels == {<<"e", "-", "3">>}
Dirs == {<<"d">>}
ClockReadings == 0..MaxClock
None == "-"
Raise == "raise"

RECURSIVE SeqsUpTo(_, _)
SeqsUpTo(S, n) ==
    IF n = 0 THEN {<<>>}
    ELSE LET shorter == SeqsUpTo(S, n - 1)
         IN shorter \cup {Append(s, x) : s \in shorter, x \in S}

\* ------------------------------------------------------------- variables
VARIABLES
    pc,        \* position of start()
    error,     \* the exception start() ended with, None while there is none
    env,       \* how the collaborators answer in this run
    args,      \* the argparse namespace handed to start()
    data,      \* content of the input file (list of queries)
    tasks,     \* the per-query pipelines: gather's tasks (sync variant: loop iterations)
    ready,     \* the event loop's FIFO queue of ready handles
    outer,     \* the future asyncio.gather returned
    baseline,  \* baseline_data of start(), None until generated
    fs,        \* output files: path -> content
    path,      \* output_full_path of the running _output_baseline, <<>> before
    outputs,   \* paths returned by the executions of _output_baseline
    log        \* history of the external operations performed

vars == <<pc, error, env, args, data, tasks, ready, outer, baseline, fs, path, outputs, log>>

Event(op, idx, arg, ret) == [op |-> op, idx |-> idx, arg |-> arg, ret |-> ret]

Bool(b) == IF b THEN "true" ELSE "false"

EnvSet == [fileOk : BOOLEAN, schemaOk : BOOLEAN, llmKnown : BOOLEAN,
           queryModelOk : BOOLEAN, embKnown : BOOLEAN, embModelOk : BOOLEAN]

ArgsSet == [query_llm : Sources, query_model : Models,
            embeddings_llm : EmbSources, embeddings_model : EmbModels,
            output_directory : Dirs]

NoOuter == [state |-> "none", nfinished |-> 0, value |-> <<>>]

Init ==
    /\ pc = "LoadInput"
    /\ error = None
    /\ env \in EnvSet
    /\ args \in ArgsSet
    /\ data \in SeqsUpTo(Queries, MaxN)
    /\ tasks = <<>>
    /\ ready = <<>>
    /\ outer = NoOuter
    /\ baseline = None
    /\ fs = <<>>
    /\ path = <<>>
    /\ outputs = <<>>
    /\ log = <<>>

\* --------------------------------------------------------------- start()
\* Variant: the embeddings model is validated only after generation.
StepAfterLateValidation(step) ==
    CASE step = "LoadInput" -> "ValidateSchema"
      [] step = "ValidateSchema" -> "GetLLM"
      [] step = "GetLLM" -> "ValidateModel"
      [] step = "ValidateModel" -> "GetEmbeddings"
      [] step = "GetEmbeddings" -> "Generate"
      [] step = "Generate" -> "ValidateEmbeddings"
      [] step = "ValidateEmbeddings" -> "Output"
      [] step = "Output" -> "Done"

\* Variant: the services are resolved before the input is schema-validated.
StepAfterResolveFirst(step) ==
    CASE step = "LoadInput" -> "GetLLM"
      [] step = "GetLLM" -> "ValidateSchema"
      [] step = "ValidateSchema" -> "ValidateModel"
      [] step = "ValidateModel" -> "GetEmbeddings"
      [] step = "GetEmbeddings" -> "ValidateEmbeddings"
      [] step = "ValidateEmbeddings" -> "Generate"
      [] step = "Generate" -> "Output"
      [] step = "Output" -> "Done"

\* Variant: both services are resolved before either model is validated.
StepAfterResolveBoth(step) ==
    CASE step = "LoadInput" -> "ValidateSchema"
      [] step = "ValidateSchema" -> "GetLLM"
      [] step = "GetLLM" -> "GetEmbeddings"
      [] step = "GetEmbeddings" -> "ValidateModel"
      [] step = "ValidateModel" -> "ValidateEmbeddings"
      [] step = "ValidateEmbeddings" -> "Generate"
      [] step = "Generate" -> "Output"
      [] step = "Output" -> "Done"

\* The statement start() executes after the given one has succeeded.
StepAfter(step) ==
    CASE step = "LoadInput" -> "ValidateSchema"
      [] step = "ValidateSchema" -> "GetLLM"
      [] step = "GetLLM" -> "ValidateModel"
      [] step = "ValidateModel" -> "GetEmbeddings"
      [] step = "GetEmbeddings" -> "ValidateEmbeddings"
      [] step = "ValidateEmbeddings" -> "Generate"
      [] step = "Generate" -> "Output"
      [] step = "Output" -> "Done"

\* Variant: a failed statement is executed again.
StepOnRaiseRetry(step) == step

\* An exception raised by a statement of start() is not caught: it leaves start().
StepOnRaise(step) == "Failed"

\* Variant: the result of the validation is ignored.
ModelRejectedNever(supported) == FALSE

\* `if not llm_supported_model: raise TypeError(...)`
ModelRejected(supported) == ~supported

Proceed(step, ok, exc, ev) ==
    /\ pc' = IF ok THEN StepAfter(step) ELSE StepOnRaise(step)
    /\ error' = IF ok THEN error ELSE exc
    /\ log' = Append(log, ev)

LoadInput ==
    /\ pc = "LoadInput"
    /\ Proceed("LoadInput", env.fileOk, "IOError",
               Event("open_r", 0, None, Bool(env.fileOk)))
    /\ UNCHANGED <<env, args, data, tasks, ready, outer, baseline, fs, path, outputs>>

ValidateSchema ==
    /\ pc = "ValidateSchema"
    /\ Proceed("ValidateSchema", env.schemaOk, "SchemaValidationError",
               Event("validate_schema", 0, None, Bool(env.schemaOk)))
    /\ UNCHANGED <<env, args, data, tasks, ready, outer, baseline, fs, path, outputs>>

GetLLM ==
    /\ pc = "GetLLM"
    /\ Proceed("GetLLM", env.llmKnown, "UnknownProviderError",
               Event("getLLM", 0, None, Bool(env.llmKnown)))
    /\ UNCHANGED <<env, args, data, tasks, ready, outer, baseline, fs, path, outputs>>

ValidateModel ==
    /\ pc = "ValidateModel"
    /\ Proceed("ValidateModel", ~ModelRejected(env.queryModelOk), "TypeError",
               Event("validate_model", 0, None, Bool(env.queryModelOk)))
    /\ UNCHANGED <<env, args, data, tasks, ready, outer, baseline, fs, path, outputs>>

GetEmbeddings ==
    /\ pc = "GetEmbeddings"
    /\ Proceed("GetEmbeddings", env.embKnown, "UnknownProviderError",
               Event("getEmbeddings", 0, None, Bool(env.embKnown)))
    /\ UNCHANGED <<env, args, data, tasks, ready, outer, baseline, fs, path, outputs>>

ValidateEmbeddings ==
    /\ pc = "ValidateEmbeddings"
    /\ Proceed("ValidateEmbeddings", ~ModelRejected(env.embModelOk), "TypeError",
               Event("validate_embeddings", 0, None, Bool(env.embModelOk)))
    /\ UNCHANGED <<env, args, data, tasks, ready, outer, baseline, fs, path, outputs>>

\* ------------------------------------------- asyncio.run(_generate_baseline)
Handle(kind, idx) == [kind |-> kind, idx |-> idx]

NewTask(query) == [state |-> "pending", query |-> query, response |-> None, vector |-> None]

\* `llm_service.query(query_model, query)`: what the query service is asked.
QueryInput(query) == query

\* Variant: the query is embedded instead of its response.
EmbedInputQuery(query, llm_response) == query

\* `embeddings_service.embed(embeddings_model, llm_response)`: what is embedded.
EmbedInput(query, llm_response) == llm_response

\* The dict _run_query_baseline returns.
QueryResult(query, llm_response, response_embeddings) ==
    [query |-> query, response |-> llm_response, vector |-> response_embeddings]

\* Variant: the results are collected last child first.
GatherResultsReversed(ts) ==
    [i \in 1..Len(ts) |-> QueryResult(ts[Len(ts) + 1 - i].query, ts[Len(ts) + 1 - i].response,
                                      ts[Len(ts) + 1 - i].vector)]

\* asyncio.gather's result: the children's results in the order they were passed.
GatherResults(ts) ==
    [i \in 1..Len(ts) |-> QueryResult(ts[i].query, ts[i].response, ts[i].vector)]

\* Variant: a failed generation is not noticed.
AfterGenerateAlways(outerState) == StepAfter("Generate")

\* What start() does when asyncio.run comes back.
AfterGenerate(outerState) ==
    IF outerState = "result" THEN StepAfter("Generate") ELSE StepOnRaise("Generate")

\* asyncio.run starts the main task: it creates one coroutine per query, hands
\* them to gather (one task each, scheduled in input order) and awaits.
\* gather() of nothing is already resolved, so the main task returns at once.
MainStart ==
    /\ pc = "Generate"
    /\ IF Len(data) = 0
       THEN /\ baseline' = GatherResults(<<>>)
            /\ pc' = AfterGenerate("result")
            /\ log' = log \o <<Event("generate_begin", 0, None, None),
                               Event("generate_end", 0, None, "true")>>
            /\ UNCHANGED <<tasks, ready, outer>>
       ELSE /\ tasks' = [i \in 1..Len(data) |-> NewTask(data[i])]
            /\ ready' = [i \in 1..Len(data) |-> Handle("step", i)]
            /\ outer' = [state |-> "pending", nfinished |-> 0, value |-> <<>>]
            /\ pc' = "Loop"
            /\ log' = Append(log, Event("generate_begin", 0, None, None))
            /\ UNCHANGED baseline
    /\ UNCHANGED <<error, env, args, data, fs, path, outputs>>

\* Variant: a handle is put at the front of the queue.
ScheduleFirst(queue, h) == <<h>> \o queue

\* loop.call_soon: the handle is appended to the FIFO queue of ready handles.
Schedule(queue, h) == Append(queue, h)

\* Variant: a failed query call is made again.
TaskAfterQueryRetry(ret) == IF ret = Raise THEN "pending" ELSE "queried"

\* The coroutine after `llm_service.query(...)`: an exception ends it (there is
\* no try), a response lets it go on to the embed call.
TaskAfterQuery(ret) == IF ret = Raise THEN "failed" ELSE "queried"

\* Variant: gather(..., return_exceptions=True).
ChildOutcomeReturnExceptions(taskState) == "result"

\* How gather (return_exceptions left False) takes a finished child.
ChildOutcome(taskState) == IF taskState = "failed" THEN "exception" ELSE "result"

\* Variant: the count of finished children is compared one off.
AllFinishedOffByOne(nf, n) == nf > n

\* gather resolves when the last child has finished.
AllFinished(nf, n) == nf = n

\* A task's step runs the coroutine; it has no await, so the handle stays at
\* the head of the queue until the coroutine returns or raises.
Running(i) ==
    /\ pc = "Loop"
    /\ ready # <<>>
    /\ Head(ready) = Handle("step", i)

TaskQuery(i) ==
    /\ Running(i)
    /\ tasks[i].state = "pending"
    /\ \E ret \in Responses \cup {Raise} :
        /\ log' = Append(log, Event("query", i, QueryInput(tasks[i].query), ret))
        /\ tasks' = [tasks EXCEPT ![i].state = TaskAfterQuery(ret),
                                  ![i].response = IF ret = Raise THEN None ELSE ret]
        /\ ready' = IF TaskAfterQuery(ret) = "failed"
                     THEN Schedule(Tail(ready), Handle("cb", i))
                     ELSE ready
    /\ UNCHANGED <<pc, error, env, args, data, outer, baseline, fs, path, outputs>>

TaskEmbed(i) ==
    /\ Running(i)
    /\ tasks[i].state = "queried"
    /\ \E ret \in Vectors \cup {Raise} :
        /\ log' = Append(log, Event("embed", i,
                                    EmbedInput(tasks[i].query, tasks[i].response), ret))
        /\ tasks' = IF ret = Raise
                    THEN [tasks EXCEPT ![i].state = "failed"]
                    ELSE [tasks EXCEPT ![i].state = "done", ![i].vector = ret]
        /\ ready' = Schedule(Tail(ready), Handle("cb", i))
    /\ UNCHANGED <<pc, error, env, args, data, outer, baseline, fs, path, outputs>>

\* gather's _done_callback for child i.
GatherDone(i) ==
    /\ pc = "Loop"
    /\ ready # <<>>
    /\ Head(ready) = Handle("cb", i)
    /\ LET nf == outer.nfinished + 1
       IN IF outer.state # "pending"
          THEN /\ outer' = [outer EXCEPT !.nfinished = nf]
               /\ ready' = Tail(ready)
          ELSE IF ChildOutcome(tasks[i].state) = "exception"
          THEN /\ outer' = [state |-> "exception", nfinished |-> nf, value |-> <<>>]
               /\ ready' = Schedule(Tail(ready), Handle("wake", 0))
          ELSE IF AllFinished(nf, Len(tasks))
          THEN /\ outer' = [state |-> "result", nfinished |-> nf,
                            value |-> GatherResults(tasks)]
               /\ ready' = Schedule(Tail(ready), Handle("wake", 0))
          ELSE /\ outer' = [outer EXCEPT !.nfinished = nf]
               /\ ready' = Tail(ready)
    /\ UNCHANGED <<pc, error, env, args, data, tasks, baseline, fs, path, outputs, log>>

\* The main task resumes from `await gather(...)`; asyncio.run then returns its
\* result or cancels what is left and re-raises.
MainWake ==
    /\ pc = "Loop"
    /\ ready # <<>>
    /\ Head(ready) = Handle("wake", 0)
    /\ pc' = AfterGenerate(outer.state)
    /\ ready' = <<>>
    /\ IF outer.state = "result"
       THEN /\ baseline' = outer.value
            /\ log' = Append(log, Event("generate_end", 0, None, "true"))
            /\ UNCHANGED <<error, tasks>>
       ELSE /\ error' = "ProviderCallError"
            /\ tasks' = [i \in 1..Len(tasks) |->
                            IF tasks[i].state \in {"done", "failed"} THEN tasks[i]
                            ELSE [tasks[i] EXCEPT !.state = "cancelled"]]
            /\ UNCHANGED <<baseline, log>>
    /\ UNCHANGED <<env, args, data, outer, fs, path, outputs>>

\* ------------------------------------------------------- _output_baseline
LowerChar(c) ==
    CASE c = "A" -> "a"
      [] c = "M" -> "m"
      [] OTHER -> c

\* str.lower()
Lower(s) == [i \in 1..Len(s) |-> LowerChar(s[i])]

DigitChar(d) == <<"0", "1", "2", "3", "4", "5", "6", "7", "8", "9">>[d + 1]

RECURSIVE NatToStr(_)
NatToStr(n) == IF n < 10 THEN <<DigitChar(n)>> ELSE NatToStr(n \div 10) \o <<DigitChar(n % 10)>>

\* str(datetime.now().timestamp()) for a clock reading of t tenths of a second.
TimestampStr(t) == NatToStr(t \div 10) \o <<".">> \o NatToStr(t % 10)

\* file_utils.str_to_safe_filename: characters unsafe in a filename become "_".
SafeFilename(s) == [i \in 1..Len(s) |-> IF s[i] \in {".", "/", " ", ":"} THEN "_" ELSE s[i]]

\* os.path.join(output_directory, name)
PathJoin(dir, name) ==
    IF dir = <<>> THEN name
    ELSE IF dir[Len(dir)] = "/" THEN dir \o name
    ELSE dir \o <<"/">> \o name

\* output_file of _output_baseline
OutputFile(a, t) ==
    <<"b", "a", "s", "e", "l", "i", "n", "e", "_", "_">>
    \o Lower(a.query_llm) \o <<"_">> \o Lower(a.query_model) \o <<"_", "_">>
    \o Lower(a.embeddings_llm) \o <<"_">> \o Lower(a.embeddings_model) \o <<"_", "_">>
    \o TimestampStr(t)

\* output_full_path of _output_baseline
OutputFullPath(a, t) ==
    PathJoin(a.output_directory, SafeFilename(OutputFile(a, t)) \o <<".", "j", "s", "o", "n">>)

\* The object handed to json.dump.
Artifact(a, b) ==
    [llm |-> [source |-> a.query_llm, model |-> a.query_model],
     embeddings |-> [source |-> a.embeddings_llm, model |-> a.embeddings_model],
     data |-> b]

File(status, doc) == [status |-> status, doc |-> doc]

\* `open(output_full_path, "w")`: creates or truncates the file, or raises.
OutputOpen ==
    /\ pc = "Output"
    /\ \E t \in ClockReadings, ok \in BOOLEAN :
        LET p == OutputFullPath(args, t)
        IN /\ path' = p
           /\ log' = Append(log, Event("open_w", 0, None, Bool(ok)))
           /\ IF ok
              THEN /\ fs' = (p :> File("empty", None)) @@ fs
                   /\ pc' = "Dump"
                   /\ error' = error
              ELSE /\ fs' = fs
                   /\ pc' = StepOnRaise("Output")
                   /\ error' = "IOError"
    /\ UNCHANGED <<env, args, data, tasks, ready, outer, baseline, outputs>>

\* json.dump(..., indent=4) writes the document to the file chunk by chunk.
OutputDumpChunk ==
    /\ pc = "Dump"
    /\ fs[path].status = "empty"
    /\ fs' = [fs EXCEPT ![path] = File("partial", None)]
    /\ UNCHANGED <<pc, error, env, args, data, tasks, ready, outer, baseline, path, outputs, log>>

\* The last chunk is written, the file is closed and the path returned.
OutputDumpFinish ==
    /\ pc = "Dump"
    /\ fs[path].status = "partial"
    /\ fs' = [fs EXCEPT ![path] = File("complete", Artifact(args, baseline))]
    /\ outputs' = Append(outputs, path)
    /\ pc' = StepAfter("Output")
    /\ log' = Append(log, Event("dump_end", 0, None, "true"))
    /\ UNCHANGED <<error, env, args, data, tasks, ready, outer, baseline, path>>

\* json.dump raises (a value that is not serializable, a failed write): the
\* `with` block closes the file as it is and the exception leaves start().
OutputDumpRaise ==
    /\ pc = "Dump"
    /\ pc' = StepOnRaise("Output")
    /\ error' = "IOError"
    /\ log' = Append(log, Event("dump_end", 0, None, Raise))
    /\ UNCHANGED <<env, args, data, tasks, ready, outer, baseline, fs, path, outputs>>

\* ---------------------------------------------------------- specification
Next ==
    \/ LoadInput
    \/ ValidateSchema
    \/ GetLLM
    \/ ValidateModel
    \/ GetEmbeddings
    \/ ValidateEmbeddings
    \/ MainStart
    \/ \E i \in 1..MaxN : TaskQuery(i)
    \/ \E i \in 1..MaxN : TaskEmbed(i)
    \/ \E i \in 1..MaxN : GatherDone(i)
    \/ MainWake
    \/ OutputOpen
    \/ OutputDumpChunk
    \/ OutputDumpFinish
    \/ OutputDumpRaise

Spec == Init /\ [][Next]_vars

\* ------------------------------------ repeated executions of _output_baseline
Count(op) == Cardinality({i \in 1..Len(log) : log[i].op = op})

AllOk == [fileOk |-> TRUE, schemaOk |-> TRUE, llmKnown |-> TRUE,
          queryModelOk |-> TRUE, embKnown |-> TRUE, embModelOk |-> TRUE]

BaselineSet ==
    {<<>>} \cup {<<QueryResult(q, r, v)>> : q \in Queries, r \in Responses, v \in Vectors}

\* _output_baseline is entered with some arguments.
InitWrite ==
    /\ pc = "Output"
    /\ error = None
    /\ env = AllOk
    /\ args \in ArgsSet
    /\ data = <<>>
    /\ tasks = <<>>
    /\ ready = <<>>
    /\ outer = NoOuter
    /\ baseline \in BaselineSet
    /\ fs = <<>>
    /\ path = <<>>
    /\ outputs = <<>>
    /\ log = <<>>

\* _output_baseline is executed once more with the same arguments.
OutputAgain ==
    /\ pc \in {"Done", "Failed"}
    /\ Count("open_w") < MaxRuns
    /\ pc' = "Output"
    /\ error' = None
    /\ path' = <<>>
    /\ UNCHANGED <<env, args, data, tasks, ready, outer, baseline, fs, outputs, log>>

NextWrite ==
    \/ OutputOpen
    \/ OutputDumpChunk
    \/ OutputDumpFinish
    \/ OutputDumpRaise
    \/ OutputAgain

SpecWrite == InitWrite /\ [][NextWrite]_vars

\* ------------------------- the synchronous variant, src/controllers/baseline.py
\* Variant: the embeddings model is validated only after generation.
SyncStepAfterLateValidation(step) ==
    CASE step = "S_LoadInput" -> "S_ValidateSchema"
      [] step = "S_ValidateSchema" -> "S_GetLLM"
      [] step = "S_GetLLM" -> "S_ValidateModel"
      [] step = "S_ValidateModel" -> "S_GetEmbeddings"
      [] step = "S_GetEmbeddings" -> "S_Generate"
      [] step = "S_Generate" -> "S_ValidateEmbeddings"
      [] step = "S_ValidateEmbeddings" -> "S_Output"
      [] step = "S_Output" -> "S_Done"

\* The statement the synchronous start() executes after the given one.
SyncStepAfter(step) ==
    CASE step = "S_LoadInput" -> "S_ValidateSchema"
      [] step = "S_ValidateSchema" -> "S_GetLLM"
      [] step = "S_GetLLM" -> "S_ValidateModel"
      [] step = "S_ValidateModel" -> "S_GetEmbeddings"
      [] step = "S_GetEmbeddings" -> "S_ValidateEmbeddings"
      [] step = "S_ValidateEmbeddings" -> "S_Generate"
      [] step = "S_Generate" -> "S_Output"
      [] step = "S_Output" -> "S_Done"

\* No statement of the synchronous start() catches an exception.
SyncStepOnRaise(step) == "S_Failed"

\* `if llm_supported_model == False: raise TypeError(...)`
SyncModelRejected(supported) == supported = FALSE

SyncProceed(step, ok, exc, ev) ==
    /\ pc' = IF ok THEN SyncStepAfter(step) ELSE SyncStepOnRaise(step)
    /\ error' = IF ok THEN error ELSE exc
    /\ log' = Append(log, ev)

S_LoadInput ==
    /\ pc = "S_LoadInput"
    /\ SyncProceed("S_LoadInput", env.fileOk, "IOError",
                   Event("open_r", 0, None, Bool(env.fileOk)))
    /\ UNCHANGED <<env, args, data, tasks, ready, outer, baseline, fs, path, outputs>>

S_ValidateSchema ==
    /\ pc = "S_ValidateSchema"
    /\ SyncProceed("S_ValidateSchema", env.schemaOk, "SchemaValidationError",
                   Event("validate_schema", 0, None, Bool(env.schemaOk)))
    /\ UNCHANGED <<env, args, data, tasks, ready, outer, baseline, fs, path, outputs>>

S_GetLLM ==
    /\ pc = "S_GetLLM"
    /\ SyncProceed("S_GetLLM", env.llmKnown, "UnknownProviderError",
                   Event("getLLM", 0, None, Bool(env.llmKnown)))
    /\ UNCHANGED <<env, args, data, tasks, ready, outer, baseline, fs, path, outputs>>

S_ValidateModel ==
    /\ pc = "S_ValidateModel"
    /\ SyncProceed("S_ValidateModel", ~SyncModelRejected(env.queryModelOk), "TypeError",
                   Event("validate_model", 0, None, Bool(env.queryModelOk)))
    /\ UNCHANGED <<env, args, data, tasks, ready, outer, baseline, fs, path, outputs>>

S_GetEmbeddings ==
    /\ pc = "S_GetEmbeddings"
    /\ SyncProceed("S_GetEmbeddings", env.embKnown, "UnknownProviderError",
                   Event("getEmbeddings", 0, None, Bool(env.embKnown)))
    /\ UNCHANGED <<env, args, data, tasks, ready, outer, baseline, fs, path, outputs>>

S_ValidateEmbeddings ==
    /\ pc = "S_ValidateEmbeddings"
    /\ SyncProceed("S_ValidateEmbeddings", ~SyncModelRejected(env.embModelOk), "TypeError",
                   Event("validate_embeddings", 0, None, Bool(env.embModelOk)))
    /\ UNCHANGED <<env, args, data, tasks, ready, outer, baseline, fs, path, outputs>>

\* The parameters of the synchronous _generate_baseline, in order.
SyncGenerateParams ==
    <<"llm_service", "embeddings_service", "query_model", "embeddings_model", "data">>

\* Variant: the call passes its arguments in the order of the parameters.
SyncGenerateArgsInOrder ==
    <<"llm_service", "embeddings_service", "query_model", "embeddings_model", "data">>

\* The locals of start() that its call of _generate_baseline passes, in order.
SyncGenerateArgs ==
    <<"llm_service", "query_model", "embeddings_service", "embeddings_model", "data">>

\* The parameters of the synchronous _output_baseline, in order.
SyncOutputParams == <<"ll_service", "embeddings_service", "baseline", "file">>

\* The locals of start() that its call of _output_baseline passes, in order.
SyncOutputArgs ==
    <<"llm_service", "embeddings_service", "query_model", "embeddings_model", "baseline_data">>

\* What kind of object a local of start() holds.
KindOf(local) ==
    CASE local = "llm_service" -> "LLMService"
      [] local = "embeddings_service" -> "EmbService"
      [] local \in {"query_model", "embeddings_model"} -> "str"
      [] local \in {"data", "baseline_data"} -> "list"

\* The local of start() a parameter is bound to by a positional call.
Bound(params, actuals, name) ==
    actuals[CHOOSE k \in 1..Len(params) : params[k] = name]

\* Attribute lookup: which kind of object has which service method.
HasMethod(kind, method) ==
    \/ kind = "LLMService" /\ method = "query"
    \/ kind = "EmbService" /\ method = "embed"

\* Only hashable objects can be elements of a set; a dict is not.
Hashable(kind) == kind \notin {"dict", "list", "set"}

SyncFail(exc) ==
    /\ pc' = SyncStepOnRaise("S_Generate")
    /\ error' = exc

\* start() calls _generate_baseline, which starts its loop over data.
S_Generate ==
    /\ pc = "S_Generate"
    /\ IF Len(SyncGenerateArgs) # Len(SyncGenerateParams)
       THEN /\ SyncFail("TypeError")
            /\ log' = Append(log, Event("generate_begin", 0, None, Raise))
            /\ UNCHANGED <<tasks, baseline>>
       ELSE IF Len(data) = 0
       THEN /\ baseline' = <<>>
            /\ pc' = SyncStepAfter("S_Generate")
            /\ log' = log \o <<Event("generate_begin", 0, None, None),
                               Event("generate_end", 0, None, "true")>>
            /\ UNCHANGED <<error, tasks>>
       ELSE /\ tasks' = <<NewTask(data[1])>>
            /\ pc' = "S_Query"
            /\ log' = Append(log, Event("generate_begin", 0, None, None))
            /\ UNCHANGED <<error, baseline>>
    /\ UNCHANGED <<env, args, data, ready, outer, fs, path, outputs>>

\* `llm_response = llm_service.query(query_model, query)` of the current iteration.
S_Query ==
    /\ pc = "S_Query"
    /\ LET i == Len(tasks)
       IN IF ~HasMethod(KindOf(Bound(SyncGenerateParams, SyncGenerateArgs, "llm_service")),
                        "query")
          THEN /\ SyncFail("AttributeError")
               /\ tasks' = [tasks EXCEPT ![i].state = "failed"]
               /\ log' = log
          ELSE \E ret \in Responses \cup {Raise} :
               /\ log' = Append(log, Event("query", i, tasks[i].query, ret))
               /\ IF ret = Raise
                  THEN /\ SyncFail("ProviderCallError")
                       /\ tasks' = [tasks EXCEPT ![i].state = "failed"]
                  ELSE /\ pc' = "S_Embed"
                       /\ error' = error
                       /\ tasks' = [tasks EXCEPT ![i].state = "queried", ![i].response = ret]
    /\ UNCHANGED <<env, args, data, ready, outer, baseline, fs, path, outputs>>

\* The rest of the loop body: `embeddings_service.embed(embeddings_model,
\* llm_response)`, then the append of a set holding the result dict, then the
\* next iteration or the return of baseline_data.
S_Embed ==
    /\ pc = "S_Embed"
    /\ LET i == Len(tasks)
       IN IF ~HasMethod(KindOf(Bound(SyncGenerateParams, SyncGenerateArgs,
                                     "embeddings_service")), "embed")
          THEN /\ SyncFail("AttributeError")
               /\ tasks' = [tasks EXCEPT ![i].state = "failed"]
               /\ UNCHANGED <<log, baseline>>
          ELSE \E ret \in Vectors \cup {Raise} :
               LET ev == Event("embed", i, tasks[i].response, ret)
                   done == [tasks EXCEPT ![i].state = "done", ![i].vector = ret]
               IN IF ret = Raise
                  THEN /\ SyncFail("ProviderCallError")
                       /\ tasks' = [tasks EXCEPT ![i].state = "failed"]
                       /\ log' = Append(log, ev)
                       /\ UNCHANGED baseline
                  ELSE IF ~Hashable("dict")
                  THEN /\ SyncFail("TypeError")
                       /\ tasks' = [tasks EXCEPT ![i].state = "failed"]
                       /\ log' = Append(log, ev)
                       /\ UNCHANGED baseline
                  ELSE IF i < Len(data)
                  THEN /\ tasks' = Append(done, NewTask(data[i + 1]))
                       /\ pc' = "S_Query"
                       /\ log' = Append(log, ev)
                       /\ UNCHANGED <<error, baseline>>
                  ELSE /\ tasks' = done
                       /\ baseline' = GatherResults(done)
                       /\ pc' = SyncStepAfter("S_Generate")
                       /\ log' = log \o <<ev, Event("generate_end", 0, None, "true")>>
                       /\ UNCHANGED error
    /\ UNCHANGED <<env, args, data, ready, outer, fs, path, outputs>>

\* start() calls _output_baseline: the call itself raises when the number of
\* arguments is not the number of parameters; else the file is written.
S_Output ==
    /\ pc = "S_Output"
    /\ IF Len(SyncOutputArgs) # Len(SyncOutputParams)
       THEN /\ pc' = SyncStepOnRaise("S_Output")
            /\ error' = "TypeError"
            /\ log' = Append(log, Event("output_call", 0, None, Raise))
            /\ UNCHANGED <<fs, path>>
       ELSE /\ pc' = SyncStepAfter("S_Output")
            /\ path' = <<"f", "i", "l", "e">>
            /\ fs' = (path' :> File("complete", Artifact(args, baseline))) @@ fs
            /\ log' = log \o <<Event("open_w", 0, None, "true"),
                               Event("dump_end", 0, None, "true")>>
            /\ UNCHANGED error
    /\ UNCHANGED <<env, args, data, tasks, ready, outer, baseline, outputs>>

InitSync ==
    /\ pc = "S_LoadInput"
    /\ error = None
    /\ env \in EnvSet
    /\ args \in ArgsSet
    /\ data \in SeqsUpTo(Queries, MaxN)
    /\ tasks = <<>>
    /\ ready = <<>>
    /\ outer = NoOuter
    /\ baseline = None
    /\ fs = <<>>
    /\ path = <<>>
    /\ outputs = <<>>
    /\ log = <<>>

NextSync ==
    \/ S_LoadInput
    \/ S_ValidateSchema
    \/ S_GetLLM
    \/ S_ValidateModel
    \/ S_GetEmbeddings
    \/ S_ValidateEmbeddings
    \/ S_Generate
    \/ S_Query
    \/ S_Embed
    \/ S_Output

SpecSync == InitSync /\ [][NextSync]_vars

\* Either variant of start() is run.
InitBoth == Init \/ InitSync

NextBoth == Next \/ NextSync

SpecBoth == InitBoth /\ [][NextBoth]_vars

\* ------------------------------------------------------------- properties
Has(op, ret) == \E k \in 1..Len(log) : log[k].op = op /\ log[k].ret = ret

\* _generate_baseline has returned a result list to start().
Generated == Has("generate_end", "true")

NoOutputFile == DOMAIN fs = {}

\* C1: when _generate_baseline returns, it returns one result per input query,
\* and the i-th result carries the i-th input query.
C1_ResultsInInputOrder ==
    Generated =>
        /\ Len(baseline) = Len(data)
        /\ \A i \in 1..Len(data) : baseline[i].query = data[i]

C1_Witness ==
    /\ Generated
    /\ Len(data) >= 2
    /\ data[1] # data[2]
    /\ baseline[1].query = data[1]

\* C2: the i-th result holds the response the query service gave for the i-th
\* query and the vector the embedding service gave for that very response.
C2_ResponseAndVectorPaired ==
    Generated =>
        \A i \in 1..Len(data) :
            /\ \E k \in 1..Len(log) :
                log[k] = Event("query", i, data[i], baseline[i].response)
            /\ \E k \in 1..Len(log) :
                log[k] = Event("embed", i, baseline[i].response, baseline[i].vector)

C2_Witness ==
    /\ Generated
    /\ Len(data) >= 2
    /\ baseline[1].response # baseline[2].response
    /\ baseline[1].vector # baseline[2].vector

\* C3: a query or embed call is preceded by both successful model validations,
\* the query model's first; with an invalid embeddings model no query is made
\* and start does not succeed.
C3_ValidationGate ==
    /\ \A k \in 1..Len(log) :
        log[k].op \in {"query", "embed"} =>
            \E a, b \in 1..Len(log) :
                /\ a < b
                /\ b < k
                /\ log[a] = Event("validate_model", 0, None, "true")
                /\ log[b] = Event("validate_embeddings", 0, None, "true")
    /\ \A b \in 1..Len(log) :
        log[b].op = "validate_embeddings" =>
            \E a \in 1..(b - 1) : log[a].op = "validate_model"
    /\ Has("validate_embeddings", "false") => (pc = "Failed" /\ Count("query") = 0)
    /\ ~env.embModelOk => (pc # "Done" /\ Count("query") = 0)

C3_Witness ==
    /\ pc = "Failed"
    /\ Has("validate_embeddings", "false")
    /\ Len(data) >= 1

\* C4: once validate_model has answered false, start has failed without
\* touching the embedding service, the query call or the output file.
C4_InvalidQueryModel ==
    Has("validate_model", "false") =>
        /\ pc = "Failed"
        /\ Count("getEmbeddings") = 0
        /\ Count("validate_embeddings") = 0
        /\ Count("embed") = 0
        /\ Count("query") = 0
        /\ Count("open_w") = 0
        /\ NoOutputFile

C4_Witness ==
    /\ pc = "Failed"
    /\ error = "TypeError"
    /\ Has("validate_model", "false")
    /\ Len(data) >= 1

\* C5: the output file is opened at most once and only when every pipeline has
\* delivered its result to start(); a run that failed before has no output file.
C5_WriteOnlyAfterGeneration ==
    /\ Count("open_w") <= 1
    /\ (Count("open_w") > 0 \/ ~NoOutputFile) =>
        /\ Generated
        /\ Len(baseline) = Len(data)
        /\ \A i \in 1..Len(tasks) : tasks[i].state = "done"
    /\ error \in {"SchemaValidationError", "UnknownProviderError", "TypeError",
                  "ProviderCallError"} => NoOutputFile

C5_Witness ==
    /\ Count("open_w") = 1
    /\ ~NoOutputFile
    /\ Len(data) >= 2

\* C6: when start() has ended, by returning or by raising, every output file
\* that exists holds the complete artifact (never an empty or partial one).
C6_AtomicWrite ==
    pc \in {"Done", "Failed"} =>
        \A p \in DOMAIN fs : fs[p].status = "complete"

\* The operations of start() itself, in the order they were performed.
StartOps ==
    LET own == SelectSeq(log, LAMBDA e : e.op \notin {"query", "embed"})
    IN [k \in 1..Len(own) |-> own[k].op]

IsPrefix(s, t) ==
    /\ Len(s) <= Len(t)
    /\ \A k \in 1..Len(s) : s[k] = t[k]

\* C7 as stated: the unknown-provider error is raised before any file I/O,
\* so neither the input file nor an output file has been opened.
C7_NoFileIOBeforeUnknownProvider ==
    error = "UnknownProviderError" =>
        /\ Count("open_r") = 0
        /\ Count("open_w") = 0

\* C7 amended: the unknown-provider error ends start() before any output file
\* is opened and before any query or embed call, but after the input file has
\* been read and validated against the schema.
C7_UnknownProviderAfterInput ==
    error = "UnknownProviderError" =>
        /\ pc = "Failed"
        /\ Len(log) >= 3
        /\ log[1] = Event("open_r", 0, None, "true")
        /\ log[2] = Event("validate_schema", 0, None, "true")
        /\ log[Len(log)].op \in {"getLLM", "getEmbeddings"}
        /\ log[Len(log)].ret = "false"
        /\ Count("open_w") = 0
        /\ Count("query") = 0
        /\ Count("embed") = 0
        /\ NoOutputFile

C7_Witness ==
    /\ error = "UnknownProviderError"
    /\ Has("getLLM", "false")
    /\ Count("open_r") = 1

\* C8 as stated: the steps run in the order LoadInput, ValidateSchema,
\* ResolveServices (both services), ValidateModels (both models), Generate,
\* Write.
C8_ResolveBothThenValidate ==
    IsPrefix(StartOps, <<"open_r", "validate_schema", "getLLM", "getEmbeddings",
                         "validate_model", "validate_embeddings",
                         "generate_begin", "generate_end", "open_w", "dump_end">>)

\* C8 amended: the steps run in the order LoadInput, ValidateSchema, resolve
\* the query service, validate the query model, resolve the embedding service,
\* validate the embeddings model, Generate, Write; every query and embed call
\* lies inside Generate, and start() is Done only after all of them.
C8_StepOrder ==
    /\ IsPrefix(StartOps, <<"open_r", "validate_schema", "getLLM", "validate_model",
                            "getEmbeddings", "validate_embeddings",
                            "generate_begin", "generate_end", "open_w", "dump_end">>)
    /\ \A k \in 1..Len(log) :
        log[k].op \in {"query", "embed"} =>
            /\ \E a \in 1..(k - 1) : log[a].op = "generate_begin"
            /\ \A b \in 1..(k - 1) : log[b].op # "generate_end"
    /\ pc = "Done" => Len(StartOps) = 10

C8_Witness ==
    /\ pc = "Done"
    /\ Len(data) >= 1
    /\ Has("dump_end", "true")

Failure(e) == e.ret \in {"false", Raise}

\* C9: a failed step of start() is the last thing start() does: nothing is
\* executed after it, no step is executed twice, a failed pipeline makes no
\* further call, generation that had a failed pipeline delivers nothing, and
\* the failed state is terminal and carries the error.
C9_FailureHalts ==
    [][/\ pc # "Failed"
       /\ (/\ \A k \in 1..Len(log) :
               (Failure(log[k]) /\ log[k].idx = 0) => (k = Len(log) /\ pc = "Failed")
           /\ \A k, j \in 1..Len(log) :
               (log[k].op = log[j].op /\ log[k].idx = log[j].idx) => k = j
           /\ \A k, j \in 1..Len(log) :
               (Failure(log[k]) /\ log[k].idx > 0 /\ k < j) =>
                   (log[j].idx > 0 /\ log[j].idx # log[k].idx)
           /\ (\E k \in 1..Len(log) : Failure(log[k])) => pc \in {"Loop", "Failed"}
           /\ (pc = "Failed") <=> (error # None))']_vars

C9_Witness ==
    /\ pc = "Failed"
    /\ error = "ProviderCallError"
    /\ Len(data) >= 2
    /\ Has("query", Raise)

\* C10: two executions of _output_baseline with the same arguments return two
\* different paths, whatever the clock showed to each.
C10_DistinctPaths ==
    \A i, j \in 1..Len(outputs) : i # j => outputs[i] # outputs[j]

\* C11: a pipeline suspends at its query call: when its query has returned and
\* other handles wait in the event loop's queue, the pipeline is no longer the
\* one that runs, so that the next pipeline's query starts before this
\* pipeline's embed stage.
C11_SuspendsAtCalls ==
    [][\A i \in 1..Len(tasks) :
        (/\ Len(tasks') = Len(tasks)
         /\ tasks[i].state = "pending"
         /\ tasks'[i].state = "queried"
         /\ Len(ready) > 1)
        => Head(ready') # Handle("step", i)]_vars

PipelineFailed == \E k \in 1..Len(log) : log[k].op \in {"query", "embed"} /\ log[k].ret = Raise

\* C12: once a query or embed call of some pipeline has failed,
\* _generate_baseline delivers no result list, start() opens no output file,
\* and start() ends with the provider's failure.
C12_FailFast ==
    PipelineFailed =>
        /\ ~Generated
        /\ outer.state # "result"
        /\ Count("open_w") = 0
        /\ NoOutputFile
        /\ pc \in {"Loop", "Failed"}
        /\ pc = "Failed" => error = "ProviderCallError"

C12_Witness ==
    /\ pc = "Failed"
    /\ Has("embed", Raise)
    /\ \E j \in 1..Len(tasks) : tasks[j].state = "done"

\* C13: no pipeline is ever cancelled; when start() has failed on a pipeline
\* failure, every pipeline has run to its completion or its own failure: its
\* query call was made, and its embed call too if the query returned.
C13_SiblingsRunOn ==
    /\ \A j \in 1..Len(tasks) : tasks[j].state # "cancelled"
    /\ (pc = "Failed" /\ error = "ProviderCallError") =>
        \A j \in 1..Len(tasks) :
            /\ tasks[j].state \in {"done", "failed"}
            /\ \E k \in 1..Len(log) : log[k].op = "query" /\ log[k].idx = j
            /\ tasks[j].response # None =>
                \E k \in 1..Len(log) : log[k].op = "embed" /\ log[k].idx = j

C13_Witness ==
    /\ pc = "Failed"
    /\ Len(tasks) >= 2
    /\ tasks[1].state = "failed"
    /\ tasks[2].state = "done"

\* C14: per input index at most one query call and at most one embed call are
\* made, the query call with that input and the embed call with its response;
\* a run that generated its results made exactly N calls of each.
C14_AtMostOnce ==
    /\ \A k, j \in 1..Len(log) :
        (/\ log[k].op \in {"query", "embed"}
         /\ log[k].op = log[j].op
         /\ log[k].idx = log[j].idx) => k = j
    /\ \A k \in 1..Len(log) :
        log[k].op = "query" =>
            /\ log[k].idx \in 1..Len(data)
            /\ log[k].arg = data[log[k].idx]
    /\ \A k \in 1..Len(log) :
        log[k].op = "embed" =>
            \E j \in 1..(k - 1) :
                /\ log[j].op = "query"
                /\ log[j].idx = log[k].idx
                /\ log[j].ret = log[k].arg
    /\ (Generated \/ pc = "Done") =>
        /\ Count("query") = Len(data)
        /\ Count("embed") = Len(data)

C14_Witness ==
    /\ pc = "Done"
    /\ Len(data) >= 2
    /\ data[1] = data[2]
    /\ Count("query") = Len(data)

\* C15 as stated: the synchronous variant discovers an invalid embeddings model
\* only after query calls were made, the concurrent variant before any.
C15_SyncDiscoversLate ==
    /\ (pc = "S_Failed" /\ Has("validate_embeddings", "false") /\ Len(data) > 0) =>
        Count("query") > 0
    /\ (pc = "Failed" /\ Has("validate_embeddings", "false")) => Count("query") = 0

\* C15 amended: the variants do not differ in this: in either, every query or
\* embed call comes after both models were validated, the query model first,
\* and an invalid embeddings model ends start() before generation begins.
C15_BothValidateFirst ==
    /\ \A k \in 1..Len(log) :
        log[k].op \in {"query", "embed"} =>
            \E a, b \in 1..(k - 1) :
                /\ a < b
                /\ log[a] = Event("validate_model", 0, None, "true")
                /\ log[b] = Event("validate_embeddings", 0, None, "true")
    /\ Has("validate_embeddings", "false") =>
        /\ pc \in {"Failed", "S_Failed"}
        /\ Count("generate_begin") = 0
        /\ Count("query") = 0

C15_Witness ==
    /\ pc = "S_Failed"
    /\ Has("validate_embeddings", "false")
    /\ Len(data) >= 1

\* C16: the synchronous start() never writes an output file and never ends
\* Done; it makes at most one query call and no embed call; a run that passed
\* both validations and has ended has failed inside _generate_baseline (after
\* exactly one query call) or, for empty input, at the call of _output_baseline.
C16_SyncNeverWrites ==
    /\ NoOutputFile
    /\ Count("open_w") = 0
    /\ pc # "S_Done"
    /\ Count("query") <= 1
    /\ Count("embed") = 0
    /\ (pc = "S_Failed" /\ Has("validate_embeddings", "true")) =>
        IF Len(data) > 0
        THEN /\ Count("query") = 1
             /\ error \in {"ProviderCallError", "AttributeError"}
             /\ ~Generated
        ELSE /\ error = "TypeError"
             /\ Has("output_call", Raise)

C16_Witness ==
    /\ pc = "S_Failed"
    /\ error = "AttributeError"
    /\ Len(data) >= 2
    /\ Count("query") = 1

\* ------------------------------------------------------------- termination
\* start() is a single thread of control: as long as a statement or a ready
\* handle is there to run it is run, and every external call returns or raises.
SpecLive == Init /\ [][Next]_vars /\ WF_vars(Next)

\* C17: every run of start() ends, Done or Failed; results are delivered only
\* when every pipeline has completed and gather has seen all of them finish.
C17_Terminates ==
    /\ <>(pc \in {"Done", "Failed"})
    /\ [](Generated =>
            /\ \A i \in 1..Len(tasks) : tasks[i].state = "done"
            /\ outer.nfinished = Len(tasks))
    /\ [](pc = "Done" => (Generated /\ Has("dump_end", "true")))

C17_Witness ==
    /\ pc = "Done"
    /\ Len(tasks) >= 2
    /\ outer.nfinished = Len(tasks)

====
